---------------------------- MODULE Spec2Model ----------------------------
(***************************************************************************)
(* LED strip controller: the APA102 frame encoder (src/src/apa102.rs),     *)
(* the strip transform (src/src/transform.rs), the rendezvous Display      *)
(* channel (src/src/display.rs) and the threads that use them              *)
(* (src/src/main.rs, src/src/visualizer.rs).                               *)
(***************************************************************************)
EXTENDS Integers, Naturals, Sequences, FiniteSets, TLC

VARIABLES
    overflow_checks,  \* build profile: TRUE = arithmetic overflow panics (debug),
                      \* FALSE = it wraps (release)
    apa_st,           \* Apa102 value: "none" | "ok" | "panicked"
    apa_op,           \* the last call made on it: "none" | "new" | "update"
    apa_arg,          \* the length Apa102::new was called with
    length,           \* Apa102.length
    buffer,           \* Apa102.buffer, byte k of the Vec is buffer[k+1]
    frame,            \* the frame given to the last Apa102::update
    tf_st,            \* Transform value: "none" | "ok" | "panicked"
    tf_args,          \* the arguments Transform::new was called with
    tf,               \* the Transform: num_strips, strip_length, reversed, x_map
    t_op,             \* the call made on the Transform: "none" | "apply" | "write_pixel"
    t_in,             \* the frame given to that call
    t_out,            \* apply: the frame returned; write_pixel: the frame afterwards
    t_ok,             \* TRUE = the call returned, FALSE = it panicked
    wp,               \* write_pixel: its x, y, color and the slot it wrote (-1: none)
    cmd,              \* opts.cmd: "Init" | "Set" | "Fps" | "Transform" | "Visualizer"
    dry_run,          \* opts.dry_run
    opt_length,       \* opts.length
    main_pc,          \* position of the main thread
    n_writes,         \* Display::write calls made so far
    acked,            \* ids of the frames whose Display::write returned Ok
    offer,            \* the frame of the sender blocked in send
    ch_buf,           \* frames buffered in the frame channel
    out_pc,           \* position of the output thread
    out_frame,        \* the frame the output thread holds (or was handed)
    received,         \* ids of the frames frame_rx.recv() has returned
    processed,        \* frames the output thread has finished (bus write made)
    spi_errors,       \* bus writes that returned an error
    stream_alive,     \* the audio stream (owner of audio_data_tx) exists
    captured,         \* sample blocks delivered by the capture callback
    audio_q,          \* capture -> analysis queue (lengths of the blocks)
    ana_pc,           \* position of the analysis thread
    sample_count,     \* sample_count of the analysis closure
    features_q,       \* analysis -> render queue (ids of the Features)
    n_features,       \* Features values sent so far
    send_errs,        \* features_tx.send calls that returned an error
    sig_prev,         \* Sigmoid::f: the call before the last (argument, index)
    sig_last,         \* Sigmoid::f: the last call (argument, index)
    vz_op,            \* the render call made: "none" | "visualize"
    vz_in,            \* the output size and Features given to visualize
    vz_out,           \* the frame visualize returned
    rendered,         \* frames rendered so far
    dropped           \* ids of the frames the render loop discarded

apaVars == <<apa_st, apa_op, apa_arg, length, buffer, frame>>

trVars == <<tf_st, tf_args, tf, t_op, t_in, t_out, t_ok, wp>>

mainVars == <<cmd, dry_run, opt_length, main_pc, n_writes, acked, rendered, dropped>>

chanVars == <<offer, ch_buf>>

outVars == <<out_pc, out_frame, received, processed, spi_errors>>

audioVars == <<stream_alive, captured, audio_q, ana_pc, sample_count, features_q,
               n_features, send_errs>>

pipeVars == <<mainVars, chanVars, outVars, audioVars>>

renderVars == <<sig_prev, sig_last, vz_op, vz_in, vz_out>>

vars == <<overflow_checks, apaVars, trVars, pipeVars, renderVars>>

(***************************************************************************)
(* Bounds of the model.                                                    *)
(***************************************************************************)
MaxLen == 2           \* small strip lengths 0..MaxLen are tried exhaustively
MaxFrameLen == 3      \* frames given to update have 0..MaxFrameLen pixels
MaxStrips == 2        \* Transform: num_strips in 0..MaxStrips
MaxStripLen == 2      \* Transform: strip_length in 0..MaxStripLen
MaxWrites == 3        \* Test Fps / Test Transform: at most MaxWrites loop rounds
MaxBlocks == 3        \* the capture callback delivers at most MaxBlocks blocks
MaxPos == 4           \* visualize: output length in 1..MaxPos
MaxBins == 2          \* visualize: output width (bins) in 1..MaxBins

(***************************************************************************)
(* Machine integers.                                                       *)
(***************************************************************************)
U8 == 256
U16 == 65536
\* usize::MAX stands above every Vec length; it is modelled 30 bits wide, within
\* the integers of the model checker
UsizeMax == U16 * (U16 \div 4) - 1

RECURSIVE BitAndN(_, _, _)
BitAndN(x, y, n) ==
    IF n = 0 THEN 0
    ELSE (x % 2) * (y % 2) + 2 * BitAndN(x \div 2, y \div 2, n - 1)

RECURSIVE BitOrN(_, _, _)
BitOrN(x, y, n) ==
    IF n = 0 THEN 0
    ELSE (IF (x % 2) + (y % 2) > 0 THEN 1 ELSE 0)
         + 2 * BitOrN(x \div 2, y \div 2, n - 1)

BitAnd(x, y) == BitAndN(x, y, 8)
BitOr(x, y) == BitOrN(x, y, 8)

(***************************************************************************)
(* apa102.rs                                                               *)
(***************************************************************************)
ARGB8(a, r, g, b) == [a |-> a, r |-> r, g |-> g, b |-> b]

\* alpha samples: the ends of the 5-bit field, a mixed bit pattern, and a
\* u8 above the field (update takes any u8)
ApaPixels == {ARGB8(0, 1, 2, 3), ARGB8(21, 1, 2, 3),
              ARGB8(31, 200, 100, 50), ARGB8(255, 200, 100, 50)}

ApaFrames == UNION {[1..n -> ApaPixels] : n \in 0..MaxFrameLen}

\* strip lengths: the small ones, and the ones around the point where
\* 4 * (length + 1) leaves 16 bits
Lengths == (0..MaxLen) \cup {16, 16383, 16384, 65535}

EndFrame(L) == 6 + (L \div 16)

\* length + 1 and 4 * (length + 1) are u16 operations
NewOverflows(L) == (L + 1 >= U16) \/ (4 * ((L + 1) % U16) >= U16)

LedFrame(L) == (4 * ((L + 1) % U16)) % U16

BufferSize(L) == LedFrame(L) + EndFrame(L)

NewBuffer(L) == [k \in 1..BufferSize(L) |-> IF k - 1 = LedFrame(L) THEN 255 ELSE 0]

ApaNew(L) ==
    /\ apa_st = "none"
    /\ apa_op' = "new"
    /\ apa_arg' = L
    /\ IF overflow_checks /\ NewOverflows(L)
       THEN /\ apa_st' = "panicked"
            /\ UNCHANGED <<length, buffer>>
       ELSE /\ apa_st' = "ok"
            /\ length' = L
            /\ buffer' = NewBuffer(L)
    /\ UNCHANGED <<overflow_checks, renderVars, frame, trVars, pipeVars>>

\* the record with the channels in red, green, blue order
LedRecordRGB(e) == <<BitAnd(224, e.a), e.r, e.g, e.b>>

\* the four bytes written for one pixel
LedRecord(e) == <<BitAnd(224, e.a), e.b, e.g, e.r>>

\* buf[k] = v with the Vec's bounds check
WriteByte(w, k, v) ==
    IF w.ok /\ k < Len(w.buf)
    THEN [buf |-> [w.buf EXCEPT ![k + 1] = v], ok |-> TRUE]
    ELSE [buf |-> w.buf, ok |-> FALSE]

RECURSIVE UpdateLoop(_, _, _, _)
UpdateLoop(buf, f, i, len) ==
    IF i >= len THEN [buf |-> buf, ok |-> TRUE]
    ELSE IF i >= Len(f) THEN [buf |-> buf, ok |-> FALSE]
    ELSE LET idx == 4 * (1 + i)
             rec == LedRecord(f[i + 1])
             w0 == [buf |-> buf, ok |-> TRUE]
             w1 == WriteByte(w0, idx, rec[1])
             w2 == WriteByte(w1, idx + 1, rec[2])
             w3 == WriteByte(w2, idx + 2, rec[3])
             w4 == WriteByte(w3, idx + 3, rec[4])
         IN IF w4.ok THEN UpdateLoop(w4.buf, f, i + 1, len) ELSE w4

ApaUpdate(f) ==
    /\ apa_st = "ok"
    /\ LET w == UpdateLoop(buffer, f, 0, length)
       IN /\ buffer' = w.buf
          /\ apa_st' = IF w.ok THEN "ok" ELSE "panicked"
    /\ frame' = f
    /\ apa_op' = "update"
    /\ UNCHANGED <<overflow_checks, renderVars, apa_arg, length, trVars, pipeVars>>

get_buffer == buffer

(***************************************************************************)
(* transform.rs                                                            *)
(***************************************************************************)
NoTransform == [num_strips |-> 0, strip_length |-> 0, reversed |-> <<>>, x_map |-> <<>>]

NoWrite == [x |-> 0, y |-> 0, color |-> ARGB8(0, 0, 0, 0), idx |-> -1]

SeqsUpTo(S, n) == UNION {[1..k -> S] : k \in 0..n}

\* a frame of k pixels, no two alike: apply and write_pixel copy pixels and
\* never look into them
IndexFrame(k) == [j \in 1..k |-> ARGB8(0, j, j, j)]

\* the frames given to a Transform: one pixel short of num_strips *
\* strip_length, exactly that long, and one pixel longer
TFrames(t) ==
    LET size == t.num_strips * t.strip_length
    IN {IndexFrame(k) : k \in {size - 1, size, size + 1} \cap Nat}

\* the color written by write_pixel, different from every pixel of TFrames
WriteColor == ARGB8(31, 15, 0, 20)

\* the check with "and" for "or"
NewFailsBoth(n, reversed, x_map) == Len(reversed) # n /\ Len(x_map) # n

NewFails(n, reversed, x_map) == Len(reversed) # n \/ Len(x_map) # n

TransformNew(n, l, reversed, x_map) ==
    /\ tf_st = "none"
    /\ tf_args' = [num_strips |-> n, strip_length |-> l,
                   reversed |-> reversed, x_map |-> x_map]
    /\ IF NewFails(n, reversed, x_map)
       THEN /\ tf_st' = "panicked"
            /\ UNCHANGED tf
       ELSE /\ tf_st' = "ok"
            /\ tf' = [num_strips |-> n, strip_length |-> l,
                      reversed |-> reversed, x_map |-> x_map]
    /\ UNCHANGED <<overflow_checks, renderVars, apaVars, pipeVars, t_op, t_in, t_out, t_ok, wp>>

\* frame[l * x .. l * (x + 1)] of a frame that holds it
Slice(f, l, x) == [k \in 1..l |-> f[l * x + k]]

\* a reversal that starts one pixel late and repeats the first pixel
ReverseFromSecond(s) ==
    [k \in 1..Len(s) |-> s[IF k = Len(s) THEN 1 ELSE Len(s) - k]]

Reverse(s) == [k \in 1..Len(s) |-> s[Len(s) + 1 - k]]

\* the segment of strip x_map[x] in its own order, the reversed flag ignored
EmitForward(t, f, x) == Slice(f, t.strip_length, t.x_map[x + 1])

\* the segment emitted for logical strip x (0-based)
Emit(t, f, x) ==
    LET s == Slice(f, t.strip_length, t.x_map[x + 1])
    IN IF t.reversed[x + 1] THEN Reverse(s) ELSE s

\* the slice of strip x ends inside a frame of n pixels
SliceEndsWithin(t, n, x) == t.strip_length * (t.x_map[x + 1] + 1) <= n

\* the slice of strip x lies inside the frame
SliceInRange(t, f, x) == SliceEndsWithin(t, Len(f), x)

RECURSIVE ApplyFrom(_, _, _)
ApplyFrom(t, f, x) ==
    IF x >= t.num_strips THEN [ok |-> TRUE, out |-> <<>>]
    ELSE IF ~SliceInRange(t, f, x) THEN [ok |-> FALSE, out |-> <<>>]
    ELSE LET rest == ApplyFrom(t, f, x + 1)
         IN IF rest.ok
            THEN [ok |-> TRUE, out |-> Emit(t, f, x) \o rest.out]
            ELSE rest

apply(t, f) == ApplyFrom(t, f, 0)

TransformApply(f) ==
    /\ tf_st = "ok"
    /\ t_op = "none"
    /\ t_op' = "apply"
    /\ t_in' = f
    /\ LET r == apply(tf, f)
       IN /\ t_ok' = r.ok
          /\ t_out' = r.out
    /\ UNCHANGED <<overflow_checks, renderVars, apaVars, pipeVars, tf_st, tf_args, tf, wp>>

\* a - b in an unsigned type of the given modulus: the difference, or on
\* overflow a panic (checks) or the wrapped value
SubOverflows(a, b) == a < b

WrapSub(a, b, top) == IF a >= b THEN a - b ELSE top - (b - a) + 1

\* the guard of write_pixel: "panic" when it panics (the explicit panic! or an
\* arithmetic overflow under overflow checks), "pass" otherwise
WriteGuard(t, x, y, checks) ==
    LET l == t.strip_length
    IN IF checks /\ SubOverflows(t.num_strips, 1) THEN "panic"
       ELSE IF x > WrapSub(t.num_strips, 1, U8 - 1) THEN "panic"
       ELSE IF checks /\ SubOverflows(l, 1) THEN "panic"
       ELSE IF y > WrapSub(l, 1, UsizeMax) THEN "panic"
       ELSE "pass"

\* the slot addressed by (x, y) once the guard has passed and x indexes x_map
WriteIdx(t, x, y) ==
    LET l == t.strip_length
    IN l * t.x_map[x + 1] + (IF t.reversed[x + 1] THEN WrapSub(l, y, UsizeMax) ELSE y)

\* the slot write_pixel writes, or -1 when it panics before writing
WriteSlot(t, f, x, y, checks) ==
    IF WriteGuard(t, x, y, checks) = "panic" THEN -1
    ELSE IF x >= Len(t.x_map) THEN -1
    ELSE IF t.reversed[x + 1] /\ checks /\ SubOverflows(t.strip_length, y) THEN -1
    ELSE IF WriteIdx(t, x, y) >= Len(f) THEN -1
    ELSE WriteIdx(t, x, y)

TransformWritePixel(f, x, y, color) ==
    /\ tf_st = "ok"
    /\ t_op = "none"
    /\ t_op' = "write_pixel"
    /\ t_in' = f
    /\ LET idx == WriteSlot(tf, f, x, y, overflow_checks)
       IN /\ t_ok' = (idx >= 0)
          /\ t_out' = IF idx >= 0 THEN [f EXCEPT ![idx + 1] = color] ELSE f
          /\ wp' = [x |-> x, y |-> y, color |-> color, idx |-> idx]
    /\ UNCHANGED <<overflow_checks, renderVars, apaVars, pipeVars, tf_st, tf_args, tf>>

(***************************************************************************)
(* display.rs, main.rs, visualizer.rs: the threads and their channels.     *)
(* Frames travel as their id and their number of pixels.                   *)
(***************************************************************************)
Capacity == 0         \* sync_channel(0)
SetWrites == 2        \* Command::Set writes the frame twice
BlockSize == 256      \* opts.sample_block_size

Cmds == {"Init", "Set", "Fps", "Transform", "Visualizer"}

\* opts.length: shorter than, equal to and longer than the 4 x 144 canvas
OptLengths == {144, 576, 600}

\* lengths of the sample blocks the capture callback delivers
BlockLens == {BlockSize \div 2, BlockSize}

\* the Transform of the output thread
PipeTransform ==
    [num_strips |-> 4, strip_length |-> 144,
     reversed |-> <<FALSE, TRUE, FALSE, TRUE>>, x_map |-> <<0, 2, 1, 3>>]

\* output_size.0 * output_size.1 of vis.run((144, 4), ..)
OutputLen == 144 * 4

Frame(id, n) == [id |-> id, len |-> n]

NoFrame == Frame(0, 0)

\* apply returns on a frame of n pixels: every slice lies inside it
ApplyReturns(t, n) == \A x \in 0..(t.num_strips - 1) : SliceEndsWithin(t, n, x)

\* update returns on a frame of n pixels for a strip of L pixels: frame[i]
\* and the four bytes of record i exist for every i < L
UpdateReturns(L, n) == L <= n /\ (L = 0 \/ 4 * L + 3 < BufferSize(L))

Running == main_pc # "exited"

\* a frame_rx that survives the death of the output thread
RxAliveAfterPanic == out_pc # "done"

\* frame_rx lives in the output thread until the thread ends
RxAlive == out_pc \notin {"dead", "done"}

\* the Display and the sink clone live on the main thread
SendersAlive == main_pc \notin {"returned", "panicked", "exited"}

\* features_rx is a local of Visualizer::run
FeaturesRxAlive == main_pc \in {"render_loop", "try_send", "run_done"}

\* a features_tx that outlives the analysis thread (a clone kept elsewhere)
AnalysisAliveForever == ana_pc \in {"loop", "done"}

\* features_tx and audio_data_rx live in the analysis thread
AnalysisAlive == ana_pc = "loop"

\* a channel with room for one frame, as sync_channel(1) makes it
SendOutcomeBuffersOne ==
    IF out_pc = "recv_wait" THEN "HandOff"
    ELSE IF ~RxAlive THEN "Disconnected"
    ELSE IF Len(ch_buf) < 1 THEN "Buffered"
    ELSE "Full"

\* a channel that buffers without bound and is never full
SendOutcomeUnbounded ==
    IF out_pc = "recv_wait" THEN "HandOff"
    ELSE IF ~RxAlive THEN "Disconnected"
    ELSE "Buffered"

\* what the frame channel does with a frame sent now
SendOutcome ==
    IF out_pc = "recv_wait" THEN "HandOff"
    ELSE IF ~RxAlive THEN "Disconnected"
    ELSE IF Len(ch_buf) < Capacity THEN "Buffered"
    ELSE "Full"

\* a hand-off that also leaves a copy of the frame in the buffer
DepositAndKeep(f) ==
    IF SendOutcome = "HandOff"
    THEN /\ out_pc' = "recv_ready"
         /\ out_frame' = f
         /\ ch_buf' = Append(ch_buf, f)
    ELSE /\ ch_buf' = Append(ch_buf, f)
         /\ UNCHANGED <<out_pc, out_frame>>

\* the frame goes to the receiver blocked in recv, or into the buffer
Deposit(f) ==
    IF SendOutcome = "HandOff"
    THEN /\ out_pc' = "recv_ready"
         /\ out_frame' = f
         /\ UNCHANGED ch_buf
    ELSE /\ ch_buf' = Append(ch_buf, f)
         /\ UNCHANGED <<out_pc, out_frame>>

WritesOf(c) == IF c = "Set" THEN SetWrites ELSE MaxWrites

\* Display::write(&frame).expect(..) of Set, Test Fps and Test Transform
MainWrite ==
    /\ main_pc = "cmd"
    /\ cmd \in {"Set", "Fps", "Transform"}
    /\ n_writes < WritesOf(cmd)
    /\ n_writes' = n_writes + 1
    /\ LET f == Frame(n_writes + 1, opt_length)
       IN CASE SendOutcome = "Disconnected" ->
                 /\ main_pc' = "panicked"
                 /\ UNCHANGED <<acked, offer, ch_buf, out_pc, out_frame>>
            [] SendOutcome \in {"HandOff", "Buffered"} ->
                 /\ Deposit(f)
                 /\ acked' = acked \cup {f.id}
                 /\ UNCHANGED <<main_pc, offer>>
            [] SendOutcome = "Full" ->
                 /\ main_pc' = "send_blocked"
                 /\ offer' = f
                 /\ UNCHANGED <<acked, ch_buf, out_pc, out_frame>>
    /\ UNCHANGED <<overflow_checks, renderVars, apaVars, trVars, cmd, dry_run, opt_length,
                   rendered, dropped, received, processed, spi_errors, audioVars>>

\* the blocked send returns Ok once a receiver has taken its frame
MainWriteWake ==
    /\ main_pc = "send_paired"
    /\ acked' = acked \cup {offer.id}
    /\ offer' = NoFrame
    /\ main_pc' = "cmd"
    /\ UNCHANGED <<overflow_checks, renderVars, apaVars, trVars, cmd, dry_run, opt_length,
                   n_writes, rendered, dropped, ch_buf, outVars, audioVars>>

\* the blocked send returns Err when the receiver is dropped; expect panics
MainWriteFail ==
    /\ main_pc = "send_blocked"
    /\ ~RxAlive
    /\ offer' = NoFrame
    /\ main_pc' = "panicked"
    /\ UNCHANGED <<overflow_checks, renderVars, apaVars, trVars, cmd, dry_run, opt_length,
                   n_writes, acked, rendered, dropped, ch_buf, outVars, audioVars>>

\* the command is over and main returns, dropping the Display
MainCmdEnd ==
    /\ main_pc = "cmd"
    /\ \/ cmd = "Init"
       \/ cmd = "Set" /\ n_writes = SetWrites
       \/ cmd \in {"Fps", "Transform"}
    /\ main_pc' = "returned"
    /\ UNCHANGED <<overflow_checks, renderVars, apaVars, trVars, cmd, dry_run, opt_length,
                   n_writes, acked, rendered, dropped, chanVars, outVars, audioVars>>

\* the process ends with its main thread; the other threads stop where they are
ProcessExit ==
    /\ main_pc \in {"returned", "panicked"}
    /\ main_pc' = "exited"
    /\ UNCHANGED <<overflow_checks, renderVars, apaVars, trVars, cmd, dry_run, opt_length,
                   n_writes, acked, rendered, dropped, chanVars, outVars, audioVars>>

\* the output thread up to its loop: Spi::new(..).expect, Apa102::new, Transform::new
OutSetup(spi_ok) ==
    /\ Running
    /\ out_pc = "start"
    /\ out_pc' = IF dry_run THEN "loop"
                 ELSE IF ~spi_ok THEN "dead"
                 ELSE IF overflow_checks /\ NewOverflows(opt_length) THEN "dead"
                 ELSE IF NewFails(PipeTransform.num_strips, PipeTransform.reversed,
                                  PipeTransform.x_map) THEN "dead"
                 ELSE "loop"
    /\ UNCHANGED <<overflow_checks, renderVars, apaVars, trVars, mainVars, chanVars,
                   out_frame, received, processed, spi_errors, audioVars>>

\* frame_rx.recv() is called
OutRecv ==
    /\ Running
    /\ out_pc = "loop"
    /\ IF ch_buf # <<>>
       THEN /\ out_frame' = Head(ch_buf)
            /\ received' = Append(received, Head(ch_buf).id)
            /\ out_pc' = "have"
            /\ IF main_pc = "send_blocked"
               THEN /\ ch_buf' = Append(Tail(ch_buf), offer)
                    /\ main_pc' = "send_paired"
               ELSE /\ ch_buf' = Tail(ch_buf)
                    /\ UNCHANGED main_pc
       ELSE IF main_pc = "send_blocked"
       THEN /\ out_frame' = offer
            /\ received' = Append(received, offer.id)
            /\ out_pc' = "have"
            /\ main_pc' = "send_paired"
            /\ UNCHANGED ch_buf
       ELSE IF ~SendersAlive
       THEN /\ out_pc' = "done"
            /\ UNCHANGED <<out_frame, received, main_pc, ch_buf>>
       ELSE /\ out_pc' = "recv_wait"
            /\ UNCHANGED <<out_frame, received, main_pc, ch_buf>>
    /\ UNCHANGED <<overflow_checks, renderVars, apaVars, trVars, cmd, dry_run, opt_length,
                   n_writes, acked, rendered, dropped, offer, processed, spi_errors, audioVars>>

\* recv() returns the frame a sender handed to it while it was blocked
OutRecvReturn ==
    /\ Running
    /\ out_pc = "recv_ready"
    /\ out_pc' = "have"
    /\ received' = Append(received, out_frame.id)
    /\ UNCHANGED <<overflow_checks, renderVars, apaVars, trVars, mainVars, chanVars,
                   out_frame, processed, spi_errors, audioVars>>

\* the blocked recv() returns Err: every sender is gone
OutRecvDisconnected ==
    /\ Running
    /\ out_pc = "recv_wait"
    /\ ~SendersAlive
    /\ out_pc' = "done"
    /\ UNCHANGED <<overflow_checks, renderVars, apaVars, trVars, mainVars, chanVars,
                   out_frame, received, processed, spi_errors, audioVars>>

\* the dry-run loop body: print_fps()
OutDryRun ==
    /\ Running
    /\ out_pc = "have"
    /\ dry_run
    /\ out_pc' = "loop"
    /\ processed' = processed + 1
    /\ UNCHANGED <<overflow_checks, renderVars, apaVars, trVars, mainVars, chanVars,
                   out_frame, received, spi_errors, audioVars>>

\* let frame = transform.apply(&frame)
OutApply ==
    /\ Running
    /\ out_pc = "have"
    /\ ~dry_run
    /\ IF ApplyReturns(PipeTransform, out_frame.len)
       THEN /\ out_pc' = "update"
            /\ out_frame' = Frame(out_frame.id,
                                  PipeTransform.num_strips * PipeTransform.strip_length)
       ELSE /\ out_pc' = "dead"
            /\ UNCHANGED out_frame
    /\ UNCHANGED <<overflow_checks, renderVars, apaVars, trVars, mainVars, chanVars,
                   received, processed, spi_errors, audioVars>>

\* leds.update(&frame)
OutUpdate ==
    /\ Running
    /\ out_pc = "update"
    /\ out_pc' = IF UpdateReturns(opt_length, out_frame.len) THEN "spi" ELSE "dead"
    /\ UNCHANGED <<overflow_checks, renderVars, apaVars, trVars, mainVars, chanVars,
                   out_frame, received, processed, spi_errors, audioVars>>

\* an output loop that breaks when the bus write fails
OutSpiWriteBreaks(ok) ==
    /\ Running
    /\ out_pc = "spi"
    /\ out_pc' = IF ok THEN "loop" ELSE "done"
    /\ processed' = processed + 1
    /\ spi_errors' = IF ok THEN spi_errors ELSE spi_errors + 1
    /\ UNCHANGED <<overflow_checks, renderVars, apaVars, trVars, mainVars, chanVars,
                   out_frame, received, audioVars>>

\* spi.write(leds.get_buffer()), its error only printed, and print_fps()
OutSpiWrite(ok) ==
    /\ Running
    /\ out_pc = "spi"
    /\ out_pc' = "loop"
    /\ processed' = processed + 1
    /\ spi_errors' = IF ok THEN spi_errors ELSE spi_errors + 1
    /\ UNCHANGED <<overflow_checks, renderVars, apaVars, trVars, mainVars, chanVars,
                   out_frame, received, audioVars>>

\* Visualizer::run up to its render loop: the analysis thread and the stream
VisStart ==
    /\ main_pc = "cmd"
    /\ cmd = "Visualizer"
    /\ main_pc' = "render_loop"
    /\ ana_pc' = "loop"
    /\ stream_alive' = TRUE
    /\ UNCHANGED <<overflow_checks, renderVars, apaVars, trVars, cmd, dry_run, opt_length,
                   n_writes, acked, rendered, dropped, chanVars, outVars,
                   captured, audio_q, sample_count, features_q, n_features, send_errs>>

\* handle_stream: the capture callback forwards a block of n samples
CaptureCallback(n) ==
    /\ Running
    /\ stream_alive
    /\ captured < MaxBlocks
    /\ captured' = captured + 1
    /\ audio_q' = IF AnalysisAlive THEN Append(audio_q, n) ELSE audio_q
    /\ UNCHANGED <<overflow_checks, renderVars, apaVars, trVars, mainVars, chanVars, outVars,
                   stream_alive, ana_pc, sample_count, features_q, n_features, send_errs>>

\* the capture collaborator ends the stream and drops the callback
CaptureClose ==
    /\ Running
    /\ stream_alive
    /\ stream_alive' = FALSE
    /\ UNCHANGED <<overflow_checks, renderVars, apaVars, trVars, mainVars, chanVars, outVars,
                   captured, audio_q, ana_pc, sample_count, features_q, n_features, send_errs>>

\* the analysis loop receives a block and runs process(data)
AnaRecv ==
    /\ Running
    /\ ana_pc = "loop"
    /\ audio_q # <<>>
    /\ audio_q' = Tail(audio_q)
    /\ IF sample_count + Head(audio_q) >= BlockSize
       THEN /\ sample_count' = 0
            /\ n_features' = n_features + 1
            /\ features_q' = IF FeaturesRxAlive
                             THEN Append(features_q, n_features + 1)
                             ELSE features_q
            /\ send_errs' = IF FeaturesRxAlive THEN send_errs ELSE send_errs + 1
       ELSE /\ sample_count' = sample_count + Head(audio_q)
            /\ UNCHANGED <<n_features, features_q, send_errs>>
    /\ UNCHANGED <<overflow_checks, renderVars, apaVars, trVars, mainVars, chanVars, outVars,
                   stream_alive, captured, ana_pc>>

\* audio_data_rx.recv() fails: the sender is gone and the queue is empty
AnaRecvErr ==
    /\ Running
    /\ ana_pc = "loop"
    /\ audio_q = <<>>
    /\ ~stream_alive
    /\ ana_pc' = "done"
    /\ UNCHANGED <<overflow_checks, renderVars, apaVars, trVars, mainVars, chanVars, outVars,
                   stream_alive, captured, audio_q, sample_count, features_q, n_features, send_errs>>

\* the render loop receives a Features value and renders it
RenderRecv ==
    /\ main_pc = "render_loop"
    /\ features_q # <<>>
    /\ features_q' = Tail(features_q)
    /\ rendered' = rendered + 1
    /\ main_pc' = "try_send"
    /\ UNCHANGED <<overflow_checks, renderVars, apaVars, trVars, cmd, dry_run, opt_length,
                   n_writes, acked, dropped, chanVars, outVars,
                   stream_alive, captured, audio_q, ana_pc, sample_count, n_features, send_errs>>

\* features_rx.recv() fails: the analysis thread is gone and the queue is empty
RenderRecvErr ==
    /\ main_pc = "render_loop"
    /\ features_q = <<>>
    /\ ~AnalysisAlive
    /\ main_pc' = "run_done"
    /\ UNCHANGED <<overflow_checks, renderVars, apaVars, trVars, cmd, dry_run, opt_length,
                   n_writes, acked, rendered, dropped, chanVars, outVars, audioVars>>

\* a render loop that also breaks when the channel is full
RenderTrySendBreaksOnFull ==
    /\ main_pc = "try_send"
    /\ LET f == Frame(rendered, OutputLen)
       IN CASE SendOutcome \in {"Disconnected", "Full"} ->
                 /\ main_pc' = "run_done"
                 /\ UNCHANGED <<dropped, ch_buf, out_pc, out_frame>>
            [] SendOutcome \in {"HandOff", "Buffered"} ->
                 /\ Deposit(f)
                 /\ main_pc' = "render_loop"
                 /\ UNCHANGED dropped
    /\ UNCHANGED <<overflow_checks, renderVars, apaVars, trVars, cmd, dry_run, opt_length,
                   n_writes, acked, rendered, offer, received, processed, spi_errors, audioVars>>

\* frame_tx.try_send(frame) and the match on its error
RenderTrySend ==
    /\ main_pc = "try_send"
    /\ LET f == Frame(rendered, OutputLen)
       IN CASE SendOutcome = "Disconnected" ->
                 /\ main_pc' = "run_done"
                 /\ UNCHANGED <<dropped, ch_buf, out_pc, out_frame>>
            [] SendOutcome \in {"HandOff", "Buffered"} ->
                 /\ Deposit(f)
                 /\ main_pc' = "render_loop"
                 /\ UNCHANGED dropped
            [] SendOutcome = "Full" ->
                 /\ dropped' = dropped \cup {f.id}
                 /\ main_pc' = "render_loop"
                 /\ UNCHANGED <<ch_buf, out_pc, out_frame>>
    /\ UNCHANGED <<overflow_checks, renderVars, apaVars, trVars, cmd, dry_run, opt_length,
                   n_writes, acked, rendered, offer, received, processed, spi_errors, audioVars>>

\* run returns after its loop, dropping the stream, and main returns
RunReturn ==
    /\ main_pc = "run_done"
    /\ main_pc' = "returned"
    /\ stream_alive' = FALSE
    /\ UNCHANGED <<overflow_checks, renderVars, apaVars, trVars, cmd, dry_run, opt_length,
                   n_writes, acked, rendered, dropped, chanVars, outVars,
                   captured, audio_q, ana_pc, sample_count, features_q, n_features, send_errs>>

(***************************************************************************)
(* visualizer.rs: the sigmoid table, the colour table and the render step. *)
(* An f64 argument x of Sigmoid::f travels as the integer x * XUnit; a hue *)
(* travels as an exact fraction num / den.                                 *)
(***************************************************************************)
SIZE == 2048          \* Sigmoid::SIZE
RANGE == 10           \* Sigmoid::RANGE
HUES == 360           \* Clut::HUES
XUnit == 1024         \* resolution of the arguments of Sigmoid::f

\* n / d rounded toward zero, the float-to-integer part of `as usize`
TruncDiv(n, d) == IF n >= 0 THEN n \div d ELSE -((-n) \div d)

\* a cast that keeps the magnitude of a negative value
AsUsizeMagnitude(q) == IF q < 0 THEN -q ELSE q

\* `as usize` of an integral float: negative values saturate to 0
AsUsize(q) == IF q < 0 THEN 0 ELSE q

\* (x * SCALE) as usize, SCALE = SIZE / (2 * RANGE)
ScaledIndex(x) == AsUsize(TruncDiv(x * SIZE, 2 * RANGE * XUnit))

\* the index of the table entry Sigmoid::f(x) returns
SigmoidIdx(x) ==
    IF x >= RANGE * XUnit THEN SIZE - 1
    ELSE IF x <= -(RANGE * XUnit) THEN 0
    ELSE ScaledIndex(x) + SIZE \div 2

\* arguments tried: the integers around the range, and values next to 0, to
\* the table steps and to the two ends of the range
XSamples ==
    {k * XUnit : k \in (-(RANGE + 1))..(RANGE + 1)}
    \cup {-(RANGE * XUnit) - 1, -(RANGE * XUnit) + 1, RANGE * XUnit - 1, RANGE * XUnit + 1}
    \cup {-11, -10, -9, -1, 1, 9, 10, 11, -(XUnit \div 2), XUnit \div 2}

NoCall == [x |-> 0, idx |-> -1]

\* SIGMOID.f(x)
SigmoidF(x) ==
    /\ vz_op = "none"
    /\ sig_prev' = sig_last
    /\ sig_last' = [x |-> x, idx |-> SigmoidIdx(x)]
    /\ UNCHANGED <<overflow_checks, apaVars, trVars, pipeVars, vz_op, vz_in, vz_out>>

\* a hue in turns: the energy angle and position i of length over one turn
HueTurns(e_deg, i, len) == [num |-> e_deg * len + HUES * i, den |-> HUES * len]

\* hue = 180 * (cycle * e + phi) / PI with phi = (2 PI / length) * i; the
\* energy comes as e_deg, the angle cycle * e in degrees
Hue(e_deg, i, len) == [num |-> e_deg * len + 360 * i, den |-> len]

\* Clut::lookup: (h * HUES) as usize % HUES
HueRow(hue) == AsUsize(TruncDiv(hue.num * HUES, hue.den)) % HUES

\* get_hsv: the pixel as the table entries its four bytes are read from
GetHsv(val, e_deg, i, len) ==
    LET hue == Hue(e_deg, i, len)
    IN [val |-> val,
        hue |-> hue,
        h |-> HueRow(hue),
        vsig |-> SigmoidIdx(val * XUnit),
        asig |-> SigmoidIdx(val * XUnit - XUnit)]

\* Features for an output of len x width: per-bin scales and energies, and
\* the amplitudes: all 1, or growing with the position and the bin
FeatureSamples ==
    UNION {[len : {len}, width : {w},
            scales : [1..w -> {1, 2}],
            energy : [1..w -> {0, 30, 400}],
            amps : {"ones", "ramp"}] : len \in 1..MaxPos, w \in 1..MaxBins}

\* features.get_amplitudes(i)[j]
Amplitude(feat, i, j) == IF feat.amps = "ones" THEN 1 ELSE i + j

\* visualize: frame[j * length + i] for i < length, j < width
visualize(feat) ==
    [k \in 1..(feat.len * feat.width) |->
        LET i == (k - 1) % feat.len
            j == (k - 1) \div feat.len
        IN GetHsv(feat.scales[j + 1] * (Amplitude(feat, i, j) - 1),
                  feat.energy[j + 1], i, feat.len)]

NoFeatures == [len |-> 0, width |-> 0, scales |-> <<>>, energy |-> <<>>, amps |-> "ones"]

Visualize(feat) ==
    /\ vz_op = "none"
    /\ sig_last = NoCall
    /\ vz_op' = "visualize"
    /\ vz_in' = feat
    /\ vz_out' = visualize(feat)
    /\ UNCHANGED <<overflow_checks, apaVars, trVars, pipeVars, sig_prev, sig_last>>

RenderIdle ==
    /\ sig_prev = NoCall
    /\ sig_last = NoCall
    /\ vz_op = "none"
    /\ vz_in = NoFeatures
    /\ vz_out = <<>>

ApaIdle ==
    /\ apa_st = "none"
    /\ apa_op = "none"
    /\ apa_arg = 0
    /\ length = 0
    /\ buffer = <<>>
    /\ frame = <<>>

TransformIdle ==
    /\ tf_st = "none"
    /\ tf_args = NoTransform
    /\ tf = NoTransform
    /\ t_op = "none"
    /\ t_in = <<>>
    /\ t_out = <<>>
    /\ t_ok = TRUE
    /\ wp = NoWrite

\* the threads and channels right after setup() has spawned the output thread
PipeStart(c, d, n, pc) ==
    /\ cmd = c
    /\ dry_run = d
    /\ opt_length = n
    /\ main_pc = pc
    /\ n_writes = 0
    /\ acked = {}
    /\ offer = NoFrame
    /\ ch_buf = <<>>
    /\ out_pc = "start"
    /\ out_frame = NoFrame
    /\ received = <<>>
    /\ processed = 0
    /\ spi_errors = 0
    /\ stream_alive = FALSE
    /\ captured = 0
    /\ audio_q = <<>>
    /\ ana_pc = "none"
    /\ sample_count = 0
    /\ features_q = <<>>
    /\ n_features = 0
    /\ send_errs = 0
    /\ rendered = 0
    /\ dropped = {}

\* no program is running: the state of the specifications of one component
PipeIdle == PipeStart("Init", FALSE, 0, "exited")

Init ==
    /\ overflow_checks \in BOOLEAN
    /\ ApaIdle
    /\ TransformIdle
    /\ RenderIdle
    /\ \E c \in Cmds, d \in BOOLEAN, n \in OptLengths : PipeStart(c, d, n, "cmd")

Next ==
    \/ MainWrite
    \/ MainWriteWake
    \/ MainWriteFail
    \/ MainCmdEnd
    \/ ProcessExit
    \/ \E spi_ok \in BOOLEAN : OutSetup(spi_ok)
    \/ OutRecv
    \/ OutRecvReturn
    \/ OutRecvDisconnected
    \/ OutDryRun
    \/ OutApply
    \/ OutUpdate
    \/ \E ok \in BOOLEAN : OutSpiWrite(ok)
    \/ VisStart
    \/ \E n \in BlockLens : CaptureCallback(n)
    \/ CaptureClose
    \/ AnaRecv
    \/ AnaRecvErr
    \/ RenderRecv
    \/ RenderRecvErr
    \/ RenderTrySend
    \/ RunReturn

Spec == Init /\ [][Next]_vars

\* the steps of the main thread
MainNext ==
    \/ MainWrite
    \/ MainWriteWake
    \/ MainWriteFail
    \/ MainCmdEnd
    \/ VisStart
    \/ RenderRecv
    \/ RenderRecvErr
    \/ RenderTrySend
    \/ RunReturn

\* the steps of the output thread
OutNext ==
    \/ \E spi_ok \in BOOLEAN : OutSetup(spi_ok)
    \/ OutRecv
    \/ OutRecvReturn
    \/ OutRecvDisconnected
    \/ OutDryRun
    \/ OutApply
    \/ OutUpdate
    \/ \E ok \in BOOLEAN : OutSpiWrite(ok)

\* the steps of the analysis thread
AnaNext == AnaRecv \/ AnaRecvErr

\* every thread that can take a step is scheduled in the end, and a process
\* whose main thread is over ends; the capture collaborator owes nothing
FairSpec ==
    /\ Spec
    /\ WF_vars(MainNext)
    /\ WF_vars(OutNext)
    /\ WF_vars(AnaNext)
    /\ WF_vars(ProcessExit)

InitUnit ==
    /\ overflow_checks \in BOOLEAN
    /\ ApaIdle
    /\ TransformIdle
    /\ PipeIdle
    /\ RenderIdle

NextApa ==
    \/ /\ apa_st = "none"
       /\ \E L \in Lengths : ApaNew(L)
    \/ /\ apa_st = "ok"
       /\ \E f \in ApaFrames : ApaUpdate(f)

SpecApa == InitUnit /\ [][NextApa]_vars

NextTransform ==
    \/ /\ tf_st = "none"
       /\ \E n \in 0..MaxStrips, l \in 0..MaxStripLen,
             reversed \in SeqsUpTo(BOOLEAN, MaxStrips + 1),
             x_map \in SeqsUpTo(0..MaxStrips, MaxStrips + 1) :
               TransformNew(n, l, reversed, x_map)
    \/ /\ tf_st = "ok" /\ t_op = "none"
       /\ \E f \in TFrames(tf) : TransformApply(f)
    \/ /\ tf_st = "ok" /\ t_op = "none"
       /\ \E f \in TFrames(tf), x \in 0..MaxStrips, y \in 0..MaxStripLen :
               TransformWritePixel(f, x, y, WriteColor)

SpecTransform == InitUnit /\ [][NextTransform]_vars

NextRender ==
    \/ \E x \in XSamples : SigmoidF(x)
    \/ \E feat \in FeatureSamples : Visualize(feat)

SpecRender == InitUnit /\ [][NextRender]_vars

(***************************************************************************)
(* Properties of the encoder (checked under SpecApa).                      *)
(***************************************************************************)
\* update(frame) has returned on the Apa102 value
Updated == apa_st = "ok" /\ apa_op = "update"

\* offset of the LED record of pixel i in the Vec
RecordAt(i) == 4 * (1 + i)

\* byte k of the Vec
Byte(k) == buffer[k + 1]

\* C1: after update(frame), for every pixel i < length whose alpha a is in
\* 0..31, the first byte of pixel i's record is 0xE0 | a.
C1_Byte0IsE0OrAlpha ==
    Updated =>
        \A i \in 0..(length - 1) :
            frame[i + 1].a \in 0..31 =>
                Byte(RecordAt(i)) = BitOr(224, frame[i + 1].a)

\* C2: after update(frame), for every pixel i < length the bytes at offsets
\* 4*(1+i)+1, +2, +3 are frame[i].b, frame[i].g, frame[i].r, for all pixels
\* at once (no record overwrites another).
C2_BlueGreenRed ==
    Updated =>
        \A i \in 0..(length - 1) :
            /\ Byte(RecordAt(i) + 1) = frame[i + 1].b
            /\ Byte(RecordAt(i) + 2) = frame[i + 1].g
            /\ Byte(RecordAt(i) + 3) = frame[i + 1].r

C2_Witness ==
    /\ Updated
    /\ length = 2
    /\ frame[1] # frame[2]
    /\ frame[1].b # frame[1].r

\* C3: for every length L given to Apa102::new, a buffer is constructed and
\* it has exactly 4*(L+1) + 6 + L/16 bytes.
C3_BufferSize ==
    apa_op = "new" =>
        /\ apa_st = "ok"
        /\ Len(buffer) = 4 * (apa_arg + 1) + 6 + (apa_arg \div 16)

\* the framing of a buffer for a strip of L pixels: its size, the zero start
\* frame, 0xFF at the head of the end frame and zeros after it
Framed(L) ==
    /\ Len(buffer) = 4 * (L + 1) + 6 + (L \div 16)
    /\ \A k \in 0..3 : Byte(k) = 0
    /\ Byte(4 * (L + 1)) = 255
    /\ \A k \in (4 * (L + 1) + 1)..(Len(buffer) - 1) : Byte(k) = 0

\* C4: after new(L) and any sequence of update() calls the buffer keeps its
\* length, its start frame is zero, the first end-frame byte is 0xFF and the
\* later end-frame bytes are zero.
C4_FramingKept == apa_st = "ok" => Framed(apa_arg)

\* the framing is kept for the lengths whose constructor arithmetic stays
\* within 16 bits, also by an update that panics half way
FramingKeptWithoutWrap ==
    (apa_op # "none" /\ ~NewOverflows(apa_arg)) => Framed(apa_arg)

(***************************************************************************)
(* Properties of the transform (checked under SpecTransform).              *)
(***************************************************************************)
\* C5: for a frame of n*l pixels apply returns a frame of n*l pixels whose
\* pixel x*l + y is the input pixel x_map[x]*l + y, or x_map[x]*l + (l-1-y)
\* when reversed[x]; it returns whenever every x_map[x] names a strip; with
\* the identity x_map and nothing reversed the output is the input.
C5_ApplyMapsSegments ==
    (t_op = "apply" /\ Len(t_in) = tf.num_strips * tf.strip_length) =>
        LET n == tf.num_strips
            l == tf.strip_length
            src(x, y) == tf.x_map[x + 1] * l
                         + (IF tf.reversed[x + 1] THEN l - 1 - y ELSE y)
        IN /\ (\A x \in 0..(n - 1) : tf.x_map[x + 1] < n) => t_ok
           /\ t_ok =>
                /\ Len(t_out) = n * l
                /\ \A x \in 0..(n - 1), y \in 0..(l - 1) :
                       t_out[x * l + y + 1] = t_in[src(x, y) + 1]
           /\ (\A x \in 0..(n - 1) : tf.x_map[x + 1] = x /\ ~tf.reversed[x + 1])
                 => (t_ok /\ t_out = t_in)

C5_Witness ==
    /\ t_op = "apply"
    /\ t_ok
    /\ tf.num_strips = 2
    /\ tf.strip_length = 2
    /\ Len(t_in) = 4
    /\ tf.x_map = <<1, 0>>
    /\ tf.reversed = <<FALSE, TRUE>>

\* C6: Transform::new panics exactly when reversed.len() != num_strips or
\* x_map.len() != num_strips, and otherwise yields the Transform of its
\* arguments.
C6_NewFailsOnLengths ==
    tf_st # "none" =>
        /\ tf_st = "panicked" <=>
              (\/ Len(tf_args.reversed) # tf_args.num_strips
               \/ Len(tf_args.x_map) # tf_args.num_strips)
        /\ tf_st = "ok" => tf = tf_args

C6_Witness ==
    /\ tf_st = "panicked"
    /\ Len(tf_args.reversed) = tf_args.num_strips
    /\ Len(tf_args.x_map) # tf_args.num_strips

\* C7: a write_pixel with x >= num_strips or y >= strip_length panics and
\* leaves every slot of the frame as it was.
C7_OutOfRangeWritePanics ==
    (/\ t_op = "write_pixel"
     /\ (wp.x >= tf.num_strips \/ wp.y >= tf.strip_length)) =>
        (~t_ok /\ t_out = t_in)

\* C8: an in-range write_pixel on a frame of n*l pixels (x_map[x] a strip)
\* writes exactly one slot, inside the segment of strip x_map[x], and leaves
\* the other slots as they were.
C8_WriteLandsInMappedStrip ==
    (/\ t_op = "write_pixel"
     /\ wp.x < tf.num_strips
     /\ wp.y < tf.strip_length
     /\ Len(t_in) = tf.num_strips * tf.strip_length
     /\ \A x \in 1..tf.num_strips : tf.x_map[x] < tf.num_strips) =>
        LET l == tf.strip_length
            m == tf.x_map[wp.x + 1]
        IN /\ t_ok
           /\ wp.idx \in (l * m)..(l * (m + 1) - 1)
           /\ t_out = [t_in EXCEPT ![wp.idx + 1] = wp.color]


(***************************************************************************)
(* Properties of the frame channel and its threads (checked under Spec).   *)
(***************************************************************************)
\* the frame a sender has put into the hands of a recv() call that has not
\* returned yet
Handed == IF out_pc = "recv_ready" THEN {out_frame.id} ELSE {}

\* ids of the frames the receiver has taken: returned by recv(), or handed
\* to the recv() call it is blocked in
Taken == {received[k] : k \in 1..Len(received)} \cup Handed

\* C9: a blocking Display::write returns Ok only after the receiver has taken
\* its frame, so at every moment the writes that have returned Ok are at
\* most the frames taken.
C9_WriteOkAfterTaken ==
    /\ acked \subseteq Taken
    /\ Cardinality(acked) <= Cardinality(Taken)

C9_Witness ==
    /\ cmd = "Set"
    /\ acked = {1, 2}
    /\ received = <<1, 2>>
    /\ out_pc = "update"

\* frames sent and not yet returned by recv()
InFlight ==
    Len(ch_buf) + Cardinality(Handed)
    + (IF main_pc = "send_blocked" THEN 1 ELSE 0)

\* C10: in the render loop the try-send never blocks; a frame the output
\* stage is not ready for is discarded, not queued, and the loop goes on to
\* the next Features; at most one frame is in flight between the render and
\* the output stage.
C10_TrySendDropsNeverBlocks ==
    /\ [](cmd = "Visualizer" =>
            /\ main_pc \notin {"send_blocked", "send_paired"}
            /\ InFlight <= 1
            /\ dropped \cap Taken = {}
            /\ \A k \in 1..Len(ch_buf) : ch_buf[k].id \notin dropped)
    /\ [][(main_pc = "try_send" /\ main_pc' # "try_send" /\ SendOutcome = "Full") =>
            /\ main_pc' = "render_loop"
            /\ dropped' = dropped \cup {rendered}
            /\ UNCHANGED <<ch_buf, out_pc, out_frame>>]_vars

C10_Witness ==
    /\ cmd = "Visualizer"
    /\ dropped = {2}
    /\ received = <<1>>
    /\ Handed = {3}
    /\ main_pc = "render_loop"

\* C11: the frames the output stage receives are a subsequence of the frames
\* the render loop rendered: every received frame was rendered (frames carry
\* their render-order number), they arrive in render order, and none arrives
\* twice.
C11_ReceivedSubsequenceOfRendered ==
    cmd = "Visualizer" =>
        /\ \A k \in 1..Len(received) : received[k] \in 1..rendered
        /\ \A k, m \in 1..Len(received) : k < m => received[k] < received[m]

C11_Witness ==
    /\ cmd = "Visualizer"
    /\ rendered = 3
    /\ received = <<1, 3>>
    /\ dropped = {2}

\* C12: the render loop leaves its try-send for the end of the loop exactly
\* when the try-send reported that the receiver is disconnected; a try-send
\* that reported Full takes the loop back to its receive.
C12_RenderEndsOnDisconnectOnly ==
    [][(main_pc = "try_send" /\ main_pc' # "try_send") =>
          /\ main_pc' = "run_done" <=> SendOutcome = "Disconnected"
          /\ SendOutcome = "Full" => main_pc' = "render_loop"]_vars

\* the loop went on after a Full and ended on a disconnected receiver while
\* the analysis thread was still sending
C12_Witness ==
    /\ cmd = "Visualizer"
    /\ main_pc = "run_done"
    /\ ana_pc = "loop"
    /\ ~RxAlive
    /\ dropped # {}

\* C13: a bus write, failed or not, takes the output loop back to its
\* receive; the loop runs to its end (the statement after it) only from a
\* receive that fails because every sender is gone and nothing is queued.
C13_BusErrorKeepsLoop ==
    /\ [][(out_pc = "spi" /\ out_pc' # "spi") => out_pc' = "loop"]_vars
    /\ [][(out_pc # "done" /\ out_pc' = "done") =>
             /\ out_pc \in {"loop", "recv_wait"}
             /\ ~SendersAlive
             /\ ch_buf = <<>>]_vars

\* both bus writes of Set failed, both frames were received and handled, and
\* the loop ended on the closed channel
C13_Witness ==
    /\ cmd = "Set"
    /\ spi_errors = 2
    /\ received = <<1, 2>>
    /\ processed = 2
    /\ out_pc = "done"

\* C14: once a features_tx.send has failed because the render-side receiver
\* is gone, the analysis loop is over.
C14_SendErrorEndsAnalysis == send_errs > 0 => ana_pc # "loop"

(***************************************************************************)
(* Shutdown of the pipeline (checked under FairSpec).                      *)
(***************************************************************************)
\* the capture-side sender of the first queue has been closed
CaptureSenderClosed == cmd = "Visualizer" /\ ana_pc # "none" /\ ~stream_alive

\* a loop is over once its thread has left it, or the process has ended
AnalysisLoopOver == ana_pc = "done" \/ ~Running

RenderLoopOver == main_pc \in {"run_done", "returned", "exited"}

OutputLoopOver == out_pc \in {"done", "dead"} \/ ~Running

\* C15: once the capture-side sender of the first queue is closed, the
\* analysis loop, the render loop and the output loop are all over in the
\* end, with no other signal than the channels closing (and the process
\* ending with its main thread); the render loop ends on a failed receive
\* only after the analysis thread is gone.
C15_ClosureUnwindsLoops ==
    /\ CaptureSenderClosed ~> (AnalysisLoopOver /\ RenderLoopOver /\ OutputLoopOver)
    /\ [][(main_pc = "render_loop" /\ main_pc' = "run_done") => ana_pc = "done"]_vars

\* the three loops all ran to their ends before the process ended
C15_Witness ==
    /\ cmd = "Visualizer"
    /\ rendered > 0
    /\ ana_pc = "done"
    /\ main_pc = "returned"
    /\ out_pc = "done"

(***************************************************************************)
(* Properties of the render step (checked under SpecRender).               *)
(***************************************************************************)
\* C16: for every x strictly between -RANGE and RANGE, negative values
\* included, Sigmoid::f(x) returns the table entry at
\* idx = trunc_toward_zero(x * SCALE) + SIZE/2, and idx is within 0..SIZE-1.
C16_IndexIsTruncPlusHalf ==
    (/\ sig_last # NoCall
     /\ -(RANGE * XUnit) < sig_last.x
     /\ sig_last.x < RANGE * XUnit) =>
        /\ sig_last.idx = TruncDiv(sig_last.x * SIZE, 2 * RANGE * XUnit) + SIZE \div 2
        /\ sig_last.idx \in 0..(SIZE - 1)

\* the index formula holds for the arguments from 0 up to RANGE, and every
\* index is within the table
IndexIsTruncPlusHalfFromZero ==
    sig_last # NoCall =>
        /\ sig_last.idx \in 0..(SIZE - 1)
        /\ (0 <= sig_last.x /\ sig_last.x < RANGE * XUnit) =>
              sig_last.idx = TruncDiv(sig_last.x * SIZE, 2 * RANGE * XUnit) + SIZE \div 2

\* C17: Sigmoid::f is non-decreasing over its whole domain (the table being
\* non-decreasing, a larger argument never reads an earlier entry); every
\* x <= -RANGE reads the leftmost entry and every x >= RANGE the rightmost.
C17_SigmoidMonotone ==
    /\ sig_last # NoCall =>
          /\ sig_last.x <= -(RANGE * XUnit) => sig_last.idx = 0
          /\ sig_last.x >= RANGE * XUnit => sig_last.idx = SIZE - 1
    /\ (sig_prev # NoCall /\ sig_prev.x <= sig_last.x) => sig_prev.idx <= sig_last.idx

\* an argument below the range followed by a negative one inside it
C17_Witness ==
    /\ sig_prev.x = -(RANGE * XUnit) - 1
    /\ sig_prev.idx = 0
    /\ sig_last.x = -XUnit
    /\ sig_last.idx > 0

\* C18: the hue get_hsv passes to Clut::lookup is normalised to one turn: it
\* lies in [0, 1) for every position, energy and cycle, so that the row
\* floor(hue * 360) mod 360 advances by one per 1/360 of a turn.
C18_HueWithinOneTurn ==
    vz_op = "visualize" =>
        \A k \in 1..Len(vz_out) :
            /\ 0 <= vz_out[k].hue.num
            /\ vz_out[k].hue.num < vz_out[k].hue.den

\* the four bytes of a pixel are read from these table entries
PixelBytes(px) == <<px.asig, px.h, px.vsig>>

\* the Features of the uniform-frame case: 2 bins, length 4, scale [1, 1],
\* energy [0, 0], every amplitude 1
UniformFeatures ==
    /\ vz_op = "visualize"
    /\ vz_in.len = 4
    /\ vz_in.width = 2
    /\ vz_in.scales = <<1, 1>>
    /\ vz_in.energy = <<0, 0>>
    /\ vz_in.amps = "ones"

\* C19: for Features with bins = 2, length = 4, scale [1, 1], energy [0, 0]
\* and every amplitude 1, visualize returns 8 pixels, the val of every pixel
\* is 0, and the 8 pixels have the same a, r, g, b.
C19_UniformFrame ==
    UniformFeatures =>
        /\ Len(vz_out) = 8
        /\ \A k \in 1..Len(vz_out) : vz_out[k].val = 0
        /\ \A k, m \in 1..Len(vz_out) : PixelBytes(vz_out[k]) = PixelBytes(vz_out[m])

C19_Witness ==
    /\ UniformFeatures
    /\ Len(vz_out) = 8
    /\ vz_out[1].hue # vz_out[2].hue

(***************************************************************************)
(* The two writes of the Set command (checked under Spec).                 *)
(***************************************************************************)
\* C20: in the Set command, when the second blocking Display::write has
\* returned Ok, the output stage has finished the first frame (its
\* transform, its encoding and its bus write are done) and has taken the
\* second.
C20_SecondOkAfterFirstProcessed ==
    (cmd = "Set" /\ 2 \in acked) =>
        /\ processed >= 1
        /\ 2 \in Taken

\* the second write has returned while the output thread, done with the
\* first frame on the bus, holds the second
C20_Witness ==
    /\ cmd = "Set"
    /\ ~dry_run
    /\ acked = {1, 2}
    /\ processed = 1
    /\ out_pc = "have"

(***************************************************************************)
(* The output stage and the frames of the commands (checked under Spec).   *)
(***************************************************************************)
\* C21: for every frame a command sends, with any strip length, the output
\* thread's apply and update return, so the thread is never dead with a
\* frame received while a sender is alive (it can only have died before its
\* loop, in its setup).
C21_OutputStageSurvivesFrames ==
    (out_pc = "dead" /\ SendersAlive) => received = <<>>

\* the frames of the canvas size, 4 x 144 pixels for a strip of 576, never
\* kill the output thread
CanvasFramesSurvive ==
    (out_pc = "dead" /\ opt_length = OutputLen) => received = <<>>

(***************************************************************************)
(* apply as a rearrangement (checked under SpecTransform).                 *)
(***************************************************************************)
\* x_map names every strip 0..num_strips-1 exactly once
IsPermutation(t) ==
    /\ Len(t.x_map) = t.num_strips
    /\ \A p \in 0..(t.num_strips - 1) :
           Cardinality({x \in 1..t.num_strips : t.x_map[x] = p}) = 1

\* C22: for a Transform whose x_map is a permutation of 0..num_strips-1 and
\* a frame of num_strips * strip_length pixels, apply returns a frame of
\* num_strips * strip_length pixels in which every input pixel position
\* appears exactly once (the pixels of the frames tried are all distinct).
C22_ApplyRearranges ==
    (/\ t_op = "apply"
     /\ IsPermutation(tf)
     /\ Len(t_in) = tf.num_strips * tf.strip_length) =>
        /\ t_ok
        /\ Len(t_out) = tf.num_strips * tf.strip_length
        /\ \A j \in 1..Len(t_in) :
               Cardinality({k \in 1..Len(t_out) : t_out[k] = t_in[j]}) = 1

\* two strips of two pixels swapped, the first emitted in reverse
C22_Witness ==
    /\ t_op = "apply"
    /\ t_ok
    /\ tf.x_map = <<1, 0>>
    /\ tf.reversed = <<TRUE, FALSE>>
    /\ tf.strip_length = 2
    /\ Len(t_in) = 4
    /\ t_out = <<t_in[4], t_in[3], t_in[1], t_in[2]>>

(***************************************************************************)
(* Blocking writes against a dead output thread (checked under FairSpec).  *)
(***************************************************************************)
\* the output thread has ended, by a panic or at the end of its loop
OutputThreadOver == out_pc \in {"dead", "done"}

\* C23: a blocking Display::write never waits for ever once the output
\* thread is over: a write blocked when the thread ends returns an error
\* (which expect turns into the end of the command), and a write made after
\* it ended fails at once without ever blocking.
C23_WriteFailsOnDeadOutput ==
    /\ (main_pc = "send_blocked" /\ OutputThreadOver) ~> (main_pc \in {"panicked", "exited"})
    /\ [][(main_pc = "cmd" /\ n_writes' = n_writes + 1 /\ OutputThreadOver) =>
             (main_pc' = "panicked" /\ acked' = acked)]_vars

\* the output thread died on the first frame while the second write of Set
\* was blocked
C23_Witness ==
    /\ cmd = "Set"
    /\ main_pc = "send_blocked"
    /\ offer.id = 2
    /\ out_pc = "dead"
    /\ received = <<1>>

=============================================================================
